---- MODULE Spec2Model ----
(***************************************************************************)
(* A model of verji-vagent-bot's responder chain and agent bridge:         *)
(*   - ResponderManager (responder_manager.rs): register, process_message  *)
(*   - RedisGraphClient (redis_client.rs): query_with_streaming and its    *)
(*     wait loop over the response topic                                   *)
(*   - VerjiAgentResponder (responders/verji_agent.rs): ensure_connected,  *)
(*     handle, the progress relay task                                     *)
(*   - PingPongResponder (responders/pingpong.rs): should_handle, handle   *)
(*   - GraphRequest, GraphMessage (redis_client.rs): the JSON wire shapes  *)
(***************************************************************************)
EXTENDS Integers, Sequences, FiniteSets, TLC

VARIABLES
    \* ---- ResponderManager ----
    responders,   \* Vec<Arc<dyn Responder>>: entries [obj, reg], reg = registration number
    nextReg,      \* number of register calls so far
    dpc,          \* position of the one process_message call: idle/check/handle/done
    dmsg,         \* message body of the context being dispatched
    cursor,       \* index of the responder the for-loop is at
    calls,        \* trait calls made by the current process_message, in order
    dresult,      \* what process_message returned
    failedBefore  \* a process_message on the present list has ended in a failure

VARIABLES
    \* ---- VerjiAgentResponder instances ----
    redis_client, \* per instance: the Option<RedisGraphClient> behind the Mutex, as <<>> or <<client>>
    lock,         \* per instance: the handle invocation holding the Mutex, 0 when free
    connects,     \* per instance: number of RedisGraphClient::new attempts
    \* ---- handle invocations ----
    hpc,          \* position of the invocation inside handle / query_with_streaming
    inst,         \* the responder instance the invocation runs on
    message_body, \* context.message_body of the invocation
    request_id,   \* the Uuid of the invocation's query, 0 before it is generated
    sub,          \* the query's pubsub subscription: none/active/dropped
    inbox,        \* payloads delivered to the subscription and not yet received
    ended,        \* the pubsub stream of the subscription has ended
    consumed,     \* payloads the wait loop has received so far
    cbLog,        \* arguments of the on_progress invocations so far
    final,        \* the GraphMessage returned by the wait loop, as <<>> or <<msg>>
    qres,         \* Result<String> of query_with_streaming
    chan,         \* the unbounded progress channel
    txAlive,      \* the channel's sender (owned by on_progress) is not yet dropped
    rpc,          \* the relay task: none/running/finished
    hres,         \* Result<ResponderResult> of handle
    elapsed,      \* start_time.elapsed() in seconds
    waited,       \* seconds spent in the current receive
    \* ---- the bus and the conversation ----
    published,    \* requests published on the request topic
    nEmitted,     \* number of payloads published on the response topic so far
    missed,       \* invocations whose own response was published while they had no subscription
    conv,         \* per invocation, what it sent to the conversation: progress sends, then the reply
    ignored,      \* per invocation, what the wait loop would have done (progress/return) with the
                  \* messages for its request_id that came when the query had returned
    age           \* per invocation, seconds since query_with_streaming built its request

VARIABLES
    \* ---- the wire structures on their own ----
    codec         \* a GraphRequest or GraphMessage, its JSON text once serialized, and the
                  \* structure parsed back from that text

dvars == <<responders, nextReg, dpc, dmsg, cursor, calls, dresult, failedBefore>>

ivars == <<redis_client, lock, connects>>

qvars == <<request_id, sub, inbox, ended, consumed, cbLog, final, qres, elapsed, waited, ignored,
          age>>

hvars == <<hpc, inst, message_body, chan, txAlive, rpc, hres>>

busvars == <<published, nEmitted, missed, conv>>

bvars == <<ivars, qvars, hvars, busvars>>

cvars == <<codec>>

vars == <<dvars, bvars, cvars>>

(***************************************************************************)
(* Bounds                                                                  *)
(***************************************************************************)
MaxResponders == 3

(***************************************************************************)
(* Responder objects. A trait object fixes name() and priority(); what     *)
(* should_handle and handle do is up to the implementation, so the pool    *)
(* holds one object per priority and behaviour.                            *)
(***************************************************************************)
Bodies == {"ping", "hello"}

Priorities == {0, 10}

Behaviours == {"decline", "ping_only", "handled", "handled_none", "not_handled", "fail"}

ResponderPool == [priority : Priorities, behaviour : Behaviours]

(***************************************************************************)
(* The two responders of the bot. Their message bodies are sequences of    *)
(* characters, so that trim and to_lowercase act on the text itself.       *)
(***************************************************************************)
\* a liveness responder ranked below the agent responder
PingPongLowPriority == [priority |-> 1, behaviour |-> "pingpong"]

PingPongResponder == [priority |-> 100, behaviour |-> "pingpong"]

VerjiAgentResponder == [priority |-> 10, behaviour |-> "agent"]

\* the handle invocation that runs the agent responder's handle
AgentTask == 1

Whitespace == {" ", "\t", "\n"}

\* str::trim: leading and trailing whitespace removed
RECURSIVE TrimStart(_)
TrimStart(s) ==
    IF s # <<>> /\ Head(s) \in Whitespace THEN TrimStart(Tail(s)) ELSE s

RECURSIVE TrimEnd(_)
TrimEnd(s) ==
    IF s # <<>> /\ s[Len(s)] \in Whitespace THEN TrimEnd(SubSeq(s, 1, Len(s) - 1)) ELSE s

Trim(s) == TrimEnd(TrimStart(s))

\* char lowercasing of the letters that occur
LowercaseOf == ("P" :> "p") @@ ("I" :> "i") @@ ("N" :> "n") @@ ("G" :> "g") @@ ("O" :> "o")

\* str::to_lowercase
ToLowercase(s) ==
    [i \in 1..Len(s) |-> IF s[i] \in DOMAIN LowercaseOf THEN LowercaseOf[s[i]] ELSE s[i]]

\* a should_handle that compares the body as it came
PingPongExactMatch(body) ==
    body = <<"p", "i", "n", "g">> \/ body = <<"!", "p", "i", "n", "g">>

\* PingPongResponder::should_handle
PingPongShouldHandle(body) ==
    LET msg == ToLowercase(Trim(body)) IN
        msg = <<"p", "i", "n", "g">> \/ msg = <<"!", "p", "i", "n", "g">>

\* an agent responder that declines one body
ShouldHandleAgentSelective(obj, body) ==
    CASE obj.behaviour = "decline"   -> FALSE
      [] obj.behaviour = "ping_only" -> body = "ping"
      [] obj.behaviour = "pingpong"  -> PingPongShouldHandle(body)
      [] obj.behaviour = "agent"     -> body # <<"h", "i">>
      [] OTHER                       -> TRUE

\* Responder::should_handle of a responder object
ShouldHandle(obj, body) ==
    CASE obj.behaviour = "decline"   -> FALSE
      [] obj.behaviour = "ping_only" -> body = "ping"
      [] obj.behaviour = "pingpong"  -> PingPongShouldHandle(body)
      [] OTHER                       -> TRUE

\* Responder::handle of a responder object: Ok(Handled(Some/None)), Ok(NotHandled) or Err;
\* the agent responder's handle is the invocation AgentTask of the bridge
HandleOutcome(obj, body) ==
    CASE obj.behaviour = "handled_none" -> [kind |-> "Handled", reply |-> <<>>]
      [] obj.behaviour = "pingpong"     -> [kind |-> "Handled", reply |-> <<"Pong!">>]
      [] obj.behaviour = "agent"        -> hres[AgentTask]
      [] obj.behaviour = "not_handled"  -> [kind |-> "NotHandled", reply |-> <<>>]
      [] obj.behaviour = "fail"         -> [kind |-> "Err", reply |-> <<>>]
      [] OTHER                          -> [kind |-> "Handled", reply |-> <<obj.behaviour, body>>]

(***************************************************************************)
(* register: push, then sort_by(|a, b| b.priority().cmp(&a.priority())).   *)
(* slice::sort_by is a stable sort.                                        *)
(***************************************************************************)
\* the comparator: "Less" puts a before b
ComparePriority(a, b) ==
    IF b.obj.priority < a.obj.priority THEN "Less"
    ELSE IF b.obj.priority > a.obj.priority THEN "Greater"
    ELSE "Equal"

RECURSIVE InsertSorted(_, _)
InsertSorted(x, s) ==
    IF s = <<>> THEN <<x>>
    ELSE IF ComparePriority(x, Head(s)) = "Less" THEN <<x>> \o s
    ELSE <<Head(s)>> \o InsertSorted(x, Tail(s))

\* a sort that is not stable: an element is put before the elements it compares equal to
RECURSIVE InsertSortedBeforeEqual(_, _)
InsertSortedBeforeEqual(x, s) ==
    IF s = <<>> THEN <<x>>
    ELSE IF ComparePriority(x, Head(s)) # "Greater" THEN <<x>> \o s
    ELSE <<Head(s)>> \o InsertSortedBeforeEqual(x, Tail(s))

RECURSIVE SortUnstable(_)
SortUnstable(s) ==
    IF s = <<>> THEN <<>>
    ELSE InsertSortedBeforeEqual(s[Len(s)], SortUnstable(SubSeq(s, 1, Len(s) - 1)))

\* stable sort by the comparator: equal elements keep their order in s
RECURSIVE SortByPriority(_)
SortByPriority(s) ==
    IF s = <<>> THEN <<>>
    ELSE InsertSorted(s[Len(s)], SortByPriority(SubSeq(s, 1, Len(s) - 1)))

Register(obj) ==
    /\ dpc \in {"idle", "done"}
    /\ Len(responders) < MaxResponders
    /\ responders' = SortByPriority(Append(responders, [obj |-> obj, reg |-> nextReg + 1]))
    /\ nextReg' = nextReg + 1
    /\ dpc' = "idle"
    /\ failedBefore' = FALSE
    /\ UNCHANGED <<dmsg, cursor, calls, dresult, bvars, cvars>>

(***************************************************************************)
(* process_message: the for-loop over self.responders, one trait call per  *)
(* step.                                                                   *)
(***************************************************************************)
NoResult == [kind |-> "None", reply |-> <<>>]

\* a dispatch that starts where the previous one stopped
ProcessMessageBeginKeepsCursor(body) ==
    /\ dpc \in {"idle", "done"}
    /\ dmsg' = body
    /\ calls' = <<>>
    /\ dresult' = NoResult
    /\ dpc' = "check"
    /\ UNCHANGED <<responders, nextReg, cursor, failedBefore, bvars, cvars>>

ProcessMessageBegin(body) ==
    /\ dpc \in {"idle", "done"}
    /\ dmsg' = body
    /\ cursor' = 1
    /\ calls' = <<>>
    /\ dresult' = NoResult
    /\ dpc' = "check"
    /\ UNCHANGED <<responders, nextReg, failedBefore, bvars, cvars>>

\* a dispatch that fails when no responder handled the message
ProcessMessageEndFails ==
    /\ dpc = "check"
    /\ cursor > Len(responders)
    /\ dresult' = [kind |-> "Err", reply |-> <<>>]
    /\ dpc' = "done"
    /\ UNCHANGED <<responders, nextReg, dmsg, cursor, calls, failedBefore, bvars, cvars>>

\* for responder in &self.responders exhausted: Ok(None)
ProcessMessageEnd ==
    /\ dpc = "check"
    /\ cursor > Len(responders)
    /\ dresult' = [kind |-> "Ok", reply |-> <<>>]
    /\ dpc' = "done"
    /\ UNCHANGED <<responders, nextReg, dmsg, cursor, calls, failedBefore, bvars, cvars>>

\* a dispatch that invokes handle whatever should_handle answered
CheckResponderIgnoresAnswer ==
    /\ dpc = "check"
    /\ cursor <= Len(responders)
    /\ calls' = Append(calls, [call |-> "should_handle", reg |-> responders[cursor].reg])
    /\ dpc' = "handle"
    /\ cursor' = cursor
    /\ UNCHANGED <<responders, nextReg, dmsg, dresult, failedBefore, bvars, cvars>>

\* responder.should_handle(context).await
CheckResponder ==
    /\ dpc = "check"
    /\ cursor <= Len(responders)
    /\ calls' = Append(calls, [call |-> "should_handle", reg |-> responders[cursor].reg])
    /\ IF ShouldHandle(responders[cursor].obj, dmsg)
       THEN dpc' = "handle" /\ cursor' = cursor
       ELSE dpc' = "check" /\ cursor' = cursor + 1
    /\ UNCHANGED <<responders, nextReg, dmsg, dresult, failedBefore, bvars, cvars>>

\* a dispatch that ends with no reply at the first NotHandled
NotHandledStops(out) ==
    CASE out.kind = "Err"     -> [ret |-> TRUE, result |-> [kind |-> "Err", reply |-> <<>>]]
      [] out.kind = "Handled" -> [ret |-> TRUE, result |-> [kind |-> "Ok", reply |-> out.reply]]
      [] OTHER                -> [ret |-> TRUE, result |-> [kind |-> "Ok", reply |-> <<>>]]

\* a dispatch that takes a failure of handle for a decline
ErrIsDecline(out) ==
    CASE out.kind = "Handled" -> [ret |-> TRUE, result |-> [kind |-> "Ok", reply |-> out.reply]]
      [] OTHER                -> [ret |-> FALSE, result |-> NoResult]

\* a dispatch that goes on to the next responder after Handled(None)
HandledNoneContinues(out) ==
    CASE out.kind = "Err"                            -> [ret |-> TRUE, result |-> [kind |-> "Err", reply |-> <<>>]]
      [] out.kind = "Handled" /\ out.reply # <<>>    -> [ret |-> TRUE, result |-> [kind |-> "Ok", reply |-> out.reply]]
      [] OTHER                                       -> [ret |-> FALSE, result |-> NoResult]

\* what process_message does with the outcome of handle: .await? returns the failure,
\* Handled(response) returns Ok(response), NotHandled goes on to the next responder
MatchHandleResult(out) ==
    CASE out.kind = "Err"     -> [ret |-> TRUE, result |-> [kind |-> "Err", reply |-> <<>>]]
      [] out.kind = "Handled" -> [ret |-> TRUE, result |-> [kind |-> "Ok", reply |-> out.reply]]
      [] OTHER                -> [ret |-> FALSE, result |-> NoResult]

\* responder.handle(context).await has completed: the agent responder's handle has
\* returned; the other responders' handle is one step
HandleCompleted(obj) == obj.behaviour = "agent" => hpc[AgentTask] = "returned"

\* match responder.handle(context).await?
HandleResponder ==
    /\ dpc = "handle"
    /\ HandleCompleted(responders[cursor].obj)
    /\ calls' = Append(calls, [call |-> "handle", reg |-> responders[cursor].reg])
    /\ LET m == MatchHandleResult(HandleOutcome(responders[cursor].obj, dmsg)) IN
         IF m.ret
         THEN /\ dresult' = m.result
              /\ dpc' = "done"
              /\ cursor' = cursor
              /\ failedBefore' = (failedBefore \/ m.result.kind = "Err")
         ELSE /\ dresult' = dresult
              /\ dpc' = "check"
              /\ cursor' = cursor + 1
              /\ failedBefore' = failedBefore
    /\ UNCHANGED <<responders, nextReg, dmsg, bvars, cvars>>

\* Responder::name: a constant of the implementation, a text; the two responders of the
\* bot name themselves by string literals, a pool implementation by what identifies it
NameOf(obj) ==
    CASE obj.behaviour = "pingpong" -> <<"PingPongResponder">>
      [] obj.behaviour = "agent"    -> <<"VerjiAgentResponder">>
      [] OTHER                      -> <<obj.behaviour, obj.priority>>

\* count: self.responders.len()
Count == Len(responders)

\* list_responders: (name, priority) of every held responder, in list order
ListResponders ==
    [i \in 1..Len(responders) |-> <<NameOf(responders[i].obj), responders[i].obj.priority>>]

DispatchInit ==
    /\ responders = <<>>
    /\ nextReg = 0
    /\ dpc = "idle"
    /\ dmsg = "ping"
    /\ cursor = 1
    /\ calls = <<>>
    /\ dresult = NoResult
    /\ failedBefore = FALSE

DispatchNext ==
    \/ \E obj \in ResponderPool : Register(obj)
    \/ \E body \in Bodies : ProcessMessageBegin(body)
    \/ CheckResponder
    \/ HandleResponder
    \/ ProcessMessageEnd

(***************************************************************************)
(* The agent bridge.                                                       *)
(***************************************************************************)
MaxEmits == 3

MaxEmitsConcurrent == 2

TimeoutSecs == 30

PollSecs == 1

\* handle invocations
Tasks == {1, 2}

\* VerjiAgentResponder objects; each owns its Mutex<Option<RedisGraphClient>>
Instances == {1, 2}

\* a request_id that no query of this process generated
ForeignId == Cardinality(Tasks) + 1

\* Uuid::new_v4(): a value no earlier call returned
NewUuid == Cardinality({t \in Tasks : request_id[t] # 0}) + 1

(***************************************************************************)
(* Wire payloads. A payload is the set of fields of the JSON object it     *)
(* carries; not_json marks text that is no JSON object, invalid_utf8 marks *)
(* bytes that are no text.                                                 *)
(***************************************************************************)
MessageTypes == {"progress", "final_response", "hitl_request", "error"}

NewPayload(rid, kind, content) ==
    [request_id |-> rid, message_type |-> kind, content |-> content]

LegacyPayload(rid, status, response) ==
    [request_id |-> rid, response |-> response, status |-> status]

LegacyPayloadWithError(rid, status, response, error) ==
    [request_id |-> rid, response |-> response, status |-> status, error |-> error]

NewPayloads(ids) ==
    {NewPayload(rid, "progress", c) : rid \in ids, c \in {"step1", "step2"}}
    \cup {NewPayload(rid, "final_response", "done") : rid \in ids}
    \cup {NewPayload(rid, "hitl_request", "approve?") : rid \in ids}
    \cup {NewPayload(rid, "error", "boom") : rid \in ids}

LegacyPayloads(ids) ==
    {LegacyPayload(rid, st, "done") : rid \in ids, st \in {"success", "error"}}
    \cup {LegacyPayloadWithError(rid, "error", "partial", "boom") : rid \in ids}

\* payloads that are neither shape: no JSON, no text, a message_type serde does not know
JunkPayloads(ids) ==
    { [not_json |-> TRUE], [invalid_utf8 |-> TRUE] }
    \cup {NewPayload(rid, "bogus", "x") : rid \in ids}

\* Msg::get_payload::<String>() succeeds on valid UTF-8 only
IsUtf8(p) == "invalid_utf8" \notin DOMAIN p

IsJsonObject(p) == IsUtf8(p) /\ "not_json" \notin DOMAIN p

\* the JSON value null
JsonNull == [null |-> TRUE]

\* serde_json::from_str::<GraphMessage>: Some(msg) as <<msg>>, a failure as <<>>.
\* An Option field is None when the key is missing and when its value is null.
ParseGraphMessage(p) ==
    IF /\ IsJsonObject(p)
       /\ {"request_id", "message_type", "content"} \subseteq DOMAIN p
       /\ p.message_type \in MessageTypes
    THEN << [request_id   |-> p.request_id,
             message_type |-> p.message_type,
             content      |-> p.content,
             metadata     |-> IF "metadata" \in DOMAIN p /\ p.metadata # JsonNull
                              THEN <<p.metadata>> ELSE <<>>] >>
    ELSE <<>>

\* serde_json::to_string(&GraphMessage): metadata is skipped when it is None
SerializeGraphMessage(m) ==
    IF m.metadata = <<>>
    THEN [request_id |-> m.request_id, message_type |-> m.message_type, content |-> m.content]
    ELSE [request_id |-> m.request_id, message_type |-> m.message_type, content |-> m.content,
          metadata |-> m.metadata[1]]

\* serde_json::to_string(&GraphRequest)
SerializeGraphRequest(r) ==
    [request_id |-> r.request_id,
     query      |-> r.query,
     metadata   |-> [room_id   |-> r.metadata.room_id,
                     user_id   |-> r.metadata.user_id,
                     timestamp |-> r.metadata.timestamp]]

\* serde_json::from_str::<GraphRequest>
ParseGraphRequest(p) ==
    IF /\ IsJsonObject(p)
       /\ {"request_id", "query", "metadata"} \subseteq DOMAIN p
       /\ p.metadata # JsonNull
       /\ {"room_id", "user_id", "timestamp"} \subseteq DOMAIN p.metadata
    THEN << [request_id |-> p.request_id,
             query      |-> p.query,
             metadata   |-> [room_id   |-> p.metadata.room_id,
                             user_id   |-> p.metadata.user_id,
                             timestamp |-> p.metadata.timestamp]] >>
    ELSE <<>>

\* serde_json::from_str::<GraphResponse>
ParseGraphResponse(p) ==
    IF /\ IsJsonObject(p)
       /\ {"request_id", "response", "status"} \subseteq DOMAIN p
    THEN << [request_id |-> p.request_id,
             response   |-> p.response,
             status     |-> p.status,
             error      |-> IF "error" \in DOMAIN p THEN <<p.error>> ELSE <<>>] >>
    ELSE <<>>

\* the legacy branch: GraphResponse -> GraphMessage
FromLegacy(r) ==
    [request_id   |-> r.request_id,
     message_type |-> IF r.status = "error" THEN "error" ELSE "final_response",
     content      |-> r.response,
     metadata     |-> <<>>]

\* a wait loop that does not compare the request_id
AcceptAnyId(msgId, rid) == TRUE

\* request_id comparison of the wait loop
IdMatches(msgId, rid) == msgId = rid

\* a loop body that takes a matching Progress message for the final one
WaitLoopBodyProgressReturns(p, rid) ==
    IF ~IsUtf8(p) THEN [act |-> "fail", msg |-> <<>>]
    ELSE LET gm == ParseGraphMessage(p) IN
        IF gm # <<>> THEN
            IF IdMatches(gm[1].request_id, rid)
            THEN [act |-> "return", msg |-> gm]
            ELSE [act |-> "continue", msg |-> <<>>]
        ELSE LET gr == ParseGraphResponse(p) IN
            IF gr # <<>> /\ IdMatches(gr[1].request_id, rid)
            THEN [act |-> "return", msg |-> <<FromLegacy(gr[1])>>]
            ELSE [act |-> "continue", msg |-> <<>>]

\* a loop body that does not take a HitlRequest for a terminal message
WaitLoopBodySkipsHitl(p, rid) ==
    IF ~IsUtf8(p) THEN [act |-> "fail", msg |-> <<>>]
    ELSE LET gm == ParseGraphMessage(p) IN
        IF gm # <<>> THEN
            IF IdMatches(gm[1].request_id, rid) /\ gm[1].message_type # "hitl_request" THEN
                IF gm[1].message_type = "progress"
                THEN [act |-> "progress", msg |-> gm]
                ELSE [act |-> "return", msg |-> gm]
            ELSE [act |-> "continue", msg |-> <<>>]
        ELSE LET gr == ParseGraphResponse(p) IN
            IF gr # <<>> /\ IdMatches(gr[1].request_id, rid)
            THEN [act |-> "return", msg |-> <<FromLegacy(gr[1])>>]
            ELSE [act |-> "continue", msg |-> <<>>]

(***************************************************************************)
(* One received message through the body of the wait loop. act is what the *)
(* loop does with it: fail (get_payload()?), progress (on_progress, then   *)
(* continue), return (Ok(msg)) or continue.                                *)
(***************************************************************************)
WaitLoopBody(p, rid) ==
    IF ~IsUtf8(p) THEN [act |-> "fail", msg |-> <<>>]
    ELSE LET gm == ParseGraphMessage(p) IN
        IF gm # <<>> THEN
            IF IdMatches(gm[1].request_id, rid) THEN
                IF gm[1].message_type = "progress"
                THEN [act |-> "progress", msg |-> gm]
                ELSE [act |-> "return", msg |-> gm]
            ELSE [act |-> "continue", msg |-> <<>>]
        ELSE LET gr == ParseGraphResponse(p) IN
            IF gr # <<>> /\ IdMatches(gr[1].request_id, rid)
            THEN [act |-> "return", msg |-> <<FromLegacy(gr[1])>>]
            ELSE [act |-> "continue", msg |-> <<>>]

\* a query that returns the content of an Error message unmarked
FinalTextUnmarked(msg) == <<msg.content>>

\* query_with_streaming's match on final_message.message_type
FinalText(msg) ==
    IF msg.message_type = "error" THEN <<"Error: ", msg.content>> ELSE <<msg.content>>

\* the two fallback replies of handle
OfflineReply(b) == <<"[Offline Mode - Redis unavailable]\nYou said: ", b>>

ErrorReply(b) == <<"[Error communicating with AI service]\nYou said: ", b>>

ErrorTexts ==
    { "Failed to create Redis connection manager",
      "subscribe failed",
      "Failed to publish request to Redis",
      "Timeout waiting for response from vagent-graph",
      "Pubsub stream ended unexpectedly",
      "payload is not valid UTF-8" }

NoQueryResult == [kind |-> "None", text |-> <<>>]

NoHandleResult == [kind |-> "None", reply |-> <<>>]

(***************************************************************************)
(* VerjiAgentResponder::handle, one action per await.                      *)
(***************************************************************************)
\* handle(context) is entered
HandleBegin(t, r, b) ==
    /\ hpc[t] = "idle"
    /\ hpc' = [hpc EXCEPT ![t] = "ec_lock"]
    /\ inst' = [inst EXCEPT ![t] = r]
    /\ message_body' = [message_body EXCEPT ![t] = b]
    /\ UNCHANGED <<ivars, qvars, chan, txAlive, rpc, hres, busvars, dvars, cvars>>

\* a Mutex that does not exclude: lock() returns a guard whoever holds one
MutexNotExclusive(r) == TRUE

\* the tokio Mutex around the client: lock().await completes when no guard is held
MutexFree(r) == lock[r] = 0

\* an ensure_connected that remembers a failed attempt and fails at once from then on
EnsureConnectedLockLatched(t) ==
    /\ hpc[t] = "ec_lock"
    /\ MutexFree(inst[t])
    /\ IF redis_client[inst[t]] # <<>>
       THEN /\ lock' = [lock EXCEPT ![inst[t]] = 0]
            /\ hpc' = [hpc EXCEPT ![t] = "h_lock"]
            /\ UNCHANGED <<hres, conv>>
       ELSE IF connects[inst[t]] = 0
       THEN /\ lock' = [lock EXCEPT ![inst[t]] = t]
            /\ hpc' = [hpc EXCEPT ![t] = "ec_connect"]
            /\ UNCHANGED <<hres, conv>>
       ELSE /\ lock' = [lock EXCEPT ![inst[t]] = 0]
            /\ hpc' = [hpc EXCEPT ![t] = "returned"]
            /\ hres' = [hres EXCEPT ![t] =
                          [kind |-> "Handled", reply |-> OfflineReply(message_body[t])]]
            /\ conv' = [conv EXCEPT ![t] = Append(@, [kind |-> "reply",
                                     text |-> OfflineReply(message_body[t]), ok |-> TRUE])]
    /\ UNCHANGED <<redis_client, connects, qvars, inst, message_body, chan, txAlive, rpc,
                   published, nEmitted, missed, dvars, cvars>>

\* ensure_connected: self.redis_client.lock().await, then client_guard.is_none(); with a
\* client present it returns Ok at once and the guard is dropped, with none it goes on
\* to RedisGraphClient::new(..).await holding the guard
EnsureConnectedLock(t) ==
    /\ hpc[t] = "ec_lock"
    /\ MutexFree(inst[t])
    /\ IF redis_client[inst[t]] = <<>>
       THEN /\ lock' = [lock EXCEPT ![inst[t]] = t]
            /\ hpc' = [hpc EXCEPT ![t] = "ec_connect"]
       ELSE /\ lock' = [lock EXCEPT ![inst[t]] = 0]
            /\ hpc' = [hpc EXCEPT ![t] = "h_lock"]
    /\ UNCHANGED <<redis_client, connects, qvars, inst, message_body, chan, txAlive, rpc,
                   hres, busvars, dvars, cvars>>

\* an ensure_connected that returns Ok without storing the client it created
EnsureConnectedDropsClient(t, ok) ==
    /\ hpc[t] = "ec_connect"
    /\ lock' = [lock EXCEPT ![inst[t]] = 0]
    /\ connects' = [connects EXCEPT ![inst[t]] = @ + 1]
    /\ hpc' = [hpc EXCEPT ![t] = "h_lock"]
    /\ UNCHANGED <<redis_client, hres, conv>>
    /\ UNCHANGED <<qvars, inst, message_body, chan, txAlive, rpc, published, nEmitted,
                   missed, dvars, cvars>>

\* RedisGraphClient::new(..).await completes: Ok(client) is stored in the guarded Option,
\* on Err handle returns the offline reply; the guard is dropped when ensure_connected
\* returns
EnsureConnected(t, ok) ==
    /\ hpc[t] = "ec_connect"
    /\ lock' = [lock EXCEPT ![inst[t]] = 0]
    /\ connects' = [connects EXCEPT ![inst[t]] = @ + 1]
    /\ IF ok
       THEN /\ redis_client' = [redis_client EXCEPT ![inst[t]] = <<connects'[inst[t]]>>]
            /\ hpc' = [hpc EXCEPT ![t] = "h_lock"]
            /\ UNCHANGED <<hres, conv>>
       ELSE /\ hpc' = [hpc EXCEPT ![t] = "returned"]
            /\ hres' = [hres EXCEPT ![t] =
                          [kind |-> "Handled", reply |-> OfflineReply(message_body[t])]]
            /\ conv' = [conv EXCEPT ![t] = Append(@, [kind |-> "reply",
                                     text |-> OfflineReply(message_body[t]), ok |-> TRUE])]
            /\ UNCHANGED redis_client
    /\ UNCHANGED <<qvars, inst, message_body, chan, txAlive, rpc, published, nEmitted,
                   missed, dvars, cvars>>

\* the order of the two bus steps of query_with_streaming
\* a query that publishes the request before it subscribes
QueryOrderPublishFirst == <<"q_publish", "q_subscribe">>

QueryOrder == <<"q_subscribe", "q_publish">>

StepAfter(step) == IF QueryOrder[1] = step THEN QueryOrder[2] ELSE "w_check"

\* handle: self.redis_client.lock().await, expect(..), the progress channel, the spawned
\* relay task; query_with_streaming: the request_id and the request
QueryBegin(t) ==
    /\ hpc[t] = "h_lock"
    /\ MutexFree(inst[t])
    /\ lock' = [lock EXCEPT ![inst[t]] = t]
    /\ IF redis_client[inst[t]] = <<>>
       THEN /\ hpc' = [hpc EXCEPT ![t] = "panicked"]
            /\ UNCHANGED <<request_id, txAlive, rpc, age>>
       ELSE /\ hpc' = [hpc EXCEPT ![t] = QueryOrder[1]]
            /\ request_id' = [request_id EXCEPT ![t] = NewUuid]
            /\ age' = [age EXCEPT ![t] = 0]
            /\ txAlive' = [txAlive EXCEPT ![t] = TRUE]
            /\ rpc' = [rpc EXCEPT ![t] = "running"]
    /\ UNCHANGED <<redis_client, connects, sub, inbox, ended, consumed, cbLog, final, qres,
                   elapsed, waited, ignored, inst, message_body, chan, hres, busvars, dvars,
                   cvars>>

\* the messages delivered to the subscription that the wait loop has not come to: all
\* but the one it is receiving
Unread(t) == IF hpc[t] = "w_recv" /\ inbox[t] # <<>> THEN Tail(inbox[t]) ELSE inbox[t]

\* what the loop body would do with the payloads of s that it would not just skip
LoopActs(s, rid) ==
    {WaitLoopBody(s[i], rid).act : i \in 1..Len(s)} \cap {"progress", "return"}

\* a query whose on_progress callback, and with it the channel's sender, outlives it
QueryReturnsKeepsSender(t, res, fin) ==
    /\ ignored' = [ignored EXCEPT ![t] = @ \cup LoopActs(Unread(t), request_id[t])]
    /\ qres' = [qres EXCEPT ![t] = res]
    /\ final' = [final EXCEPT ![t] = fin]
    /\ sub' = [sub EXCEPT ![t] = IF @ = "active" THEN "dropped" ELSE @]
    /\ inbox' = [inbox EXCEPT ![t] = <<>>]
    /\ txAlive' = txAlive
    /\ lock' = [lock EXCEPT ![inst[t]] = 0]
    /\ hpc' = [hpc EXCEPT ![t] = "join"]

\* a query whose subscription stays open after it has returned
QueryReturnsKeepsSubscription(t, res, fin) ==
    /\ ignored' = ignored
    /\ qres' = [qres EXCEPT ![t] = res]
    /\ final' = [final EXCEPT ![t] = fin]
    /\ sub' = sub
    /\ inbox' = inbox
    /\ txAlive' = [txAlive EXCEPT ![t] = FALSE]
    /\ lock' = [lock EXCEPT ![inst[t]] = 0]
    /\ hpc' = [hpc EXCEPT ![t] = "join"]

\* query_with_streaming returns res: pubsub and on_progress (the channel's sender) are
\* dropped; back in handle, drop(client_guard)
QueryReturns(t, res, fin) ==
    /\ ignored' = [ignored EXCEPT ![t] = @ \cup LoopActs(Unread(t), request_id[t])]
    /\ qres' = [qres EXCEPT ![t] = res]
    /\ final' = [final EXCEPT ![t] = fin]
    /\ sub' = [sub EXCEPT ![t] = IF @ = "active" THEN "dropped" ELSE @]
    /\ inbox' = [inbox EXCEPT ![t] = <<>>]
    /\ txAlive' = [txAlive EXCEPT ![t] = FALSE]
    /\ lock' = [lock EXCEPT ![inst[t]] = 0]
    /\ hpc' = [hpc EXCEPT ![t] = "join"]

Failure(text) == [kind |-> "Err", text |-> <<text>>]

\* Client::open, get_async_pubsub().await?, pubsub.subscribe(..).await?
Subscribe(t, ok) ==
    /\ hpc[t] = "q_subscribe"
    /\ IF ok
       THEN /\ sub' = [sub EXCEPT ![t] = "active"]
            /\ hpc' = [hpc EXCEPT ![t] = StepAfter("q_subscribe")]
            /\ elapsed' = [elapsed EXCEPT ![t] = 0]
            /\ UNCHANGED <<inbox, final, qres, txAlive, lock, ignored>>
       ELSE /\ QueryReturns(t, Failure("subscribe failed"), <<>>)
            /\ UNCHANGED elapsed
    /\ UNCHANGED <<redis_client, connects, request_id, ended, consumed, cbLog, waited, age,
                   inst, message_body, chan, rpc, hres, busvars, dvars, cvars>>

\* self.connection.publish(request_channel, request_json).await
Publish(t, ok) ==
    /\ hpc[t] = "q_publish"
    /\ IF ok
       THEN /\ published' = Append(published,
                                   [request_id |-> request_id[t], query |-> message_body[t]])
            /\ hpc' = [hpc EXCEPT ![t] = StepAfter("q_publish")]
            /\ elapsed' = [elapsed EXCEPT ![t] = 0]
            /\ UNCHANGED <<sub, inbox, final, qres, txAlive, lock, ignored>>
       ELSE /\ QueryReturns(t, Failure("Failed to publish request to Redis"), <<>>)
            /\ UNCHANGED <<published, elapsed>>
    /\ UNCHANGED <<redis_client, connects, request_id, ended, consumed, cbLog, waited, age,
                   inst, message_body, chan, rpc, hres, nEmitted, missed, conv, dvars, cvars>>

(***************************************************************************)
(* wait_for_final_response_with_pubsub                                     *)
(***************************************************************************)
DeadlinePassed(t) == elapsed[t] > TimeoutSecs

\* top of the loop: if start_time.elapsed() > timeout_duration { bail }
WaitCheck(t) ==
    /\ hpc[t] = "w_check"
    /\ IF DeadlinePassed(t)
       THEN /\ QueryReturns(t, Failure("Timeout waiting for response from vagent-graph"), <<>>)
            /\ UNCHANGED waited
       ELSE /\ hpc' = [hpc EXCEPT ![t] = "w_recv"]
            /\ waited' = [waited EXCEPT ![t] = 0]
            /\ UNCHANGED <<sub, inbox, final, qres, txAlive, lock, ignored>>
    /\ UNCHANGED <<redis_client, connects, request_id, ended, consumed, cbLog, elapsed, age,
                   inst, message_body, chan, rpc, hres, busvars, dvars, cvars>>

\* a callback that hands the content to the relay task and waits until the task has
\* taken the one before
OnProgressAwaitsRelay(t) == chan[t] = <<>>

\* on_progress(content): UnboundedSender::send queues the content and returns at once,
\* whatever the channel holds
OnProgressReturns(t) == TRUE

\* timeout(1s, pubsub_stream.next()) yields Ok(Some(msg)): the loop body on msg
Receive(t) ==
    /\ hpc[t] = "w_recv"
    /\ inbox[t] # <<>>
    /\ consumed' = [consumed EXCEPT ![t] = Append(@, Head(inbox[t]))]
    /\ LET step == WaitLoopBody(Head(inbox[t]), request_id[t]) IN
         CASE step.act = "fail" ->
                /\ QueryReturns(t, Failure("payload is not valid UTF-8"), <<>>)
                /\ UNCHANGED <<cbLog, chan>>
           [] step.act = "return" ->
                /\ QueryReturns(t, [kind |-> "Ok", text |-> FinalText(step.msg[1])], step.msg)
                /\ UNCHANGED <<cbLog, chan>>
           [] step.act = "progress" ->
                /\ OnProgressReturns(t)
                /\ cbLog' = [cbLog EXCEPT ![t] = Append(@, step.msg[1].content)]
                /\ chan' = [chan EXCEPT ![t] = Append(@, step.msg[1].content)]
                /\ inbox' = [inbox EXCEPT ![t] = Tail(@)]
                /\ hpc' = [hpc EXCEPT ![t] = "w_check"]
                /\ UNCHANGED <<sub, final, qres, txAlive, lock, ignored>>
           [] OTHER ->
                /\ inbox' = [inbox EXCEPT ![t] = Tail(@)]
                /\ hpc' = [hpc EXCEPT ![t] = "w_check"]
                /\ UNCHANGED <<sub, final, qres, txAlive, lock, ignored, cbLog, chan>>
    /\ UNCHANGED <<redis_client, connects, request_id, ended, elapsed, waited, age,
                   inst, message_body, rpc, hres, busvars, dvars, cvars>>

\* the peer closes the pubsub connection and pubsub_stream.next() yields Ok(None),
\* once the messages delivered before are received
ReceiveNone(t) ==
    /\ hpc[t] = "w_recv"
    /\ inbox[t] = <<>>
    /\ ended' = [ended EXCEPT ![t] = TRUE]
    /\ QueryReturns(t, Failure("Pubsub stream ended unexpectedly"), <<>>)
    /\ UNCHANGED <<redis_client, connects, request_id, consumed, cbLog, elapsed, waited, age,
                   inst, message_body, chan, rpc, hres, busvars, dvars, cvars>>

\* a wait loop that goes from a timed-out receive to the next without the deadline check
PollTimeoutSkipsCheck(t) ==
    /\ hpc[t] = "w_recv"
    /\ inbox[t] = <<>>
    /\ waited[t] >= PollSecs
    /\ waited' = [waited EXCEPT ![t] = 0]
    /\ UNCHANGED <<ivars, request_id, sub, inbox, ended, consumed, cbLog, final, qres,
                   elapsed, ignored, age, hvars, busvars, dvars, cvars>>

\* a wait loop that publishes the request again when a receive times out
PollTimeoutRepublishes(t) ==
    /\ hpc[t] = "w_recv"
    /\ inbox[t] = <<>>
    /\ waited[t] >= PollSecs
    /\ hpc' = [hpc EXCEPT ![t] = "w_check"]
    /\ published' = Append(published, [request_id |-> request_id[t], query |-> message_body[t]])
    /\ UNCHANGED <<ivars, request_id, sub, inbox, ended, consumed, cbLog, final, qres,
                   elapsed, waited, ignored, age, inst, message_body, chan, txAlive, rpc, hres,
                   nEmitted, missed, conv, dvars, cvars>>

\* the one-second timeout around next() elapses: continue
PollTimeout(t) ==
    /\ hpc[t] = "w_recv"
    /\ inbox[t] = <<>>
    /\ waited[t] >= PollSecs
    /\ hpc' = [hpc EXCEPT ![t] = "w_check"]
    /\ UNCHANGED <<ivars, request_id, sub, inbox, ended, consumed, cbLog, final, qres,
                   elapsed, waited, ignored, age, inst, message_body, chan, txAlive, rpc, hres,
                   busvars, dvars, cvars>>

(***************************************************************************)
(* The relay task spawned by handle, and the end of handle.                *)
(***************************************************************************)
\* a relay task that ends at the first send that fails
RelaySendStopsOnFailure(t, ok) ==
    /\ rpc[t] = "running"
    /\ chan[t] # <<>>
    /\ conv' = [conv EXCEPT ![t] = Append(@, [kind |-> "progress", text |-> <<Head(chan[t])>>,
                                             ok |-> ok])]
    /\ chan' = [chan EXCEPT ![t] = Tail(@)]
    /\ rpc' = [rpc EXCEPT ![t] = IF ok THEN "running" ELSE "finished"]
    /\ UNCHANGED <<ivars, qvars, hpc, inst, message_body, txAlive, hres, published,
                   nEmitted, missed, dvars, cvars>>

\* progress_rx.recv().await yields Some(msg); room_clone.send(content).await
RelaySend(t, ok) ==
    /\ rpc[t] = "running"
    /\ chan[t] # <<>>
    /\ conv' = [conv EXCEPT ![t] = Append(@, [kind |-> "progress", text |-> <<Head(chan[t])>>,
                                             ok |-> ok])]
    /\ chan' = [chan EXCEPT ![t] = Tail(@)]
    /\ UNCHANGED <<ivars, qvars, hpc, inst, message_body, txAlive, rpc, hres, published,
                   nEmitted, missed, dvars, cvars>>

\* progress_rx.recv().await yields None: every sender is dropped and the channel is empty
RelayExit(t) ==
    /\ rpc[t] = "running"
    /\ chan[t] = <<>>
    /\ ~txAlive[t]
    /\ rpc' = [rpc EXCEPT ![t] = "finished"]
    /\ UNCHANGED <<ivars, qvars, hpc, inst, message_body, chan, txAlive, hres, busvars, dvars, cvars>>

\* a handle that does not await progress_task
RelayNotAwaited(t) == TRUE

\* the relay task has been awaited
RelayJoined(t) == rpc[t] = "finished"

\* a handle that replies with the error's text when the query failed
ReplyOfLeaksError(t) == qres[t].text

\* the reply handle builds from the query's result
ReplyOf(t) ==
    IF qres[t].kind = "Ok" THEN qres[t].text ELSE ErrorReply(message_body[t])

\* progress_task.await.ok(); match result { .. }
HandleReturn(t) ==
    /\ hpc[t] = "join"
    /\ RelayJoined(t)
    /\ hres' = [hres EXCEPT ![t] = [kind |-> "Handled", reply |-> ReplyOf(t)]]
    /\ conv' = [conv EXCEPT ![t] = Append(@, [kind |-> "reply", text |-> ReplyOf(t), ok |-> TRUE])]
    /\ hpc' = [hpc EXCEPT ![t] = "returned"]
    /\ UNCHANGED <<ivars, qvars, inst, message_body, chan, txAlive, rpc, published, nEmitted,
                   missed, dvars, cvars>>

(***************************************************************************)
(* The environment: the response topic and time.                           *)
(***************************************************************************)
PublishedIds == {published[i].request_id : i \in 1..Len(published)}

\* someone publishes p on the response topic; the service answers requests it has seen
Emit(p, limit) ==
    /\ nEmitted < limit
    /\ "request_id" \in DOMAIN p => p.request_id \in PublishedIds \cup {ForeignId}
    /\ nEmitted' = nEmitted + 1
    /\ inbox' = [t \in Tasks |->
                    IF sub[t] = "active" THEN Append(inbox[t], p) ELSE inbox[t]]
    /\ missed' = missed \cup
                    {t \in Tasks : /\ "request_id" \in DOMAIN p
                                   /\ p.request_id = request_id[t]
                                   /\ sub[t] = "none"}
    /\ ignored' = [t \in Tasks |->
                      IF sub[t] = "dropped"
                      THEN ignored[t] \cup LoopActs(<<p>>, request_id[t])
                      ELSE ignored[t]]
    /\ UNCHANGED <<ivars, request_id, sub, ended, consumed, cbLog, final, qres, elapsed,
                   waited, age, hvars, published, conv, dvars, cvars>>

Min(a, b) == IF a < b THEN a ELSE b

InWait(t) == hpc[t] \in {"w_check", "w_recv"}

\* query_with_streaming has been entered and has not returned
Querying(t) == hpc[t] \in {"q_subscribe", "q_publish", "w_check", "w_recv"}

\* d seconds pass while a query waits
Tick(d) ==
    /\ \E t \in Tasks : InWait(t) /\ elapsed[t] <= TimeoutSecs
    /\ elapsed' = [t \in Tasks |->
                      IF InWait(t) THEN Min(elapsed[t] + d, TimeoutSecs + 1) ELSE elapsed[t]]
    /\ age' = [t \in Tasks |->
                  IF Querying(t) THEN Min(age[t] + d, TimeoutSecs + 1) ELSE age[t]]
    /\ waited' = [t \in Tasks |->
                      IF hpc[t] = "w_recv" THEN Min(waited[t] + d, PollSecs) ELSE waited[t]]
    /\ UNCHANGED <<ivars, request_id, sub, inbox, ended, consumed, cbLog, final, qres,
                   ignored, hvars, busvars, dvars, cvars>>

\* d seconds pass while a query opens its subscription or publishes its request
SetupTick(d) ==
    /\ \E t \in Tasks : Querying(t) /\ ~InWait(t) /\ age[t] <= TimeoutSecs
    /\ \A t \in Tasks : ~InWait(t)
    /\ age' = [t \in Tasks |->
                  IF Querying(t) THEN Min(age[t] + d, TimeoutSecs + 1) ELSE age[t]]
    /\ UNCHANGED <<ivars, request_id, sub, inbox, ended, consumed, cbLog, final, qres,
                   elapsed, waited, ignored, hvars, busvars, dvars, cvars>>

\* one poll interval passes. Time passes only while every waiting query is blocked in
\* timeout(1s, next()) with nothing delivered and its timeout not yet due; the steps of
\* the loop themselves take no time
PollTick ==
    /\ \E t \in Tasks : InWait(t)
    /\ \A t \in Tasks :
          InWait(t) => hpc[t] = "w_recv" /\ inbox[t] = <<>> /\ waited[t] < PollSecs
    /\ elapsed' = [t \in Tasks |->
                      IF InWait(t) THEN Min(elapsed[t] + PollSecs, TimeoutSecs + PollSecs + 1)
                      ELSE elapsed[t]]
    /\ waited' = [t \in Tasks |->
                      IF InWait(t) THEN Min(waited[t] + PollSecs, PollSecs) ELSE waited[t]]
    /\ age' = [t \in Tasks |->
                  IF Querying(t) THEN Min(age[t] + PollSecs, TimeoutSecs + 1) ELSE age[t]]
    /\ UNCHANGED <<ivars, request_id, sub, inbox, ended, consumed, cbLog, final, qres,
                   ignored, hvars, busvars, dvars, cvars>>

BridgeInit ==
    /\ redis_client = [r \in Instances |-> <<>>]
    /\ lock = [r \in Instances |-> 0]
    /\ connects = [r \in Instances |-> 0]
    /\ hpc = [t \in Tasks |-> "idle"]
    /\ inst = [t \in Tasks |-> 0]
    /\ message_body = [t \in Tasks |-> ""]
    /\ request_id = [t \in Tasks |-> 0]
    /\ sub = [t \in Tasks |-> "none"]
    /\ inbox = [t \in Tasks |-> <<>>]
    /\ ended = [t \in Tasks |-> FALSE]
    /\ consumed = [t \in Tasks |-> <<>>]
    /\ cbLog = [t \in Tasks |-> <<>>]
    /\ final = [t \in Tasks |-> <<>>]
    /\ qres = [t \in Tasks |-> NoQueryResult]
    /\ chan = [t \in Tasks |-> <<>>]
    /\ txAlive = [t \in Tasks |-> FALSE]
    /\ rpc = [t \in Tasks |-> "none"]
    /\ hres = [t \in Tasks |-> NoHandleResult]
    /\ elapsed = [t \in Tasks |-> 0]
    /\ waited = [t \in Tasks |-> 0]
    /\ age = [t \in Tasks |-> 0]
    /\ published = <<>>
    /\ nEmitted = 0
    /\ missed = {}
    /\ conv = [t \in Tasks |-> <<>>]
    /\ ignored = [t \in Tasks |-> {}]

(***************************************************************************)
(* The wire structures on their own: a structure is built, serialized to   *)
(* JSON and parsed back.                                                   *)
(***************************************************************************)
\* values of GraphMessage::metadata: Option<serde_json::Value>
MetadataValues == { <<>>, <<JsonNull>>, <<[node |-> "planner"]>> }

GraphMessages ==
    [request_id : {1, ForeignId}, message_type : MessageTypes, content : {"", "done"},
     metadata : MetadataValues]

GraphRequests ==
    [request_id : {1, ForeignId}, query : {"", "hello"},
     metadata : [room_id : {"!room"}, user_id : {"@alice"}, timestamp : {0, 1700000000}]]

NoCodec == [stage |-> "none", kind |-> "none", value |-> <<>>, json |-> <<>>, parsed |-> <<>>]

CodecBuild(kind, v) ==
    /\ codec.stage = "none"
    /\ codec' = [stage |-> "built", kind |-> kind, value |-> <<v>>, json |-> <<>>,
                 parsed |-> <<>>]
    /\ UNCHANGED <<dvars, bvars>>

CodecSerialize ==
    /\ codec.stage = "built"
    /\ codec' = [codec EXCEPT
                    !.stage = "serialized",
                    !.json = IF codec.kind = "message"
                             THEN <<SerializeGraphMessage(codec.value[1])>>
                             ELSE <<SerializeGraphRequest(codec.value[1])>>]
    /\ UNCHANGED <<dvars, bvars>>

CodecParse ==
    /\ codec.stage = "serialized"
    /\ codec' = [codec EXCEPT
                    !.stage = "parsed",
                    !.parsed = IF codec.kind = "message"
                               THEN ParseGraphMessage(codec.json[1])
                               ELSE ParseGraphRequest(codec.json[1])]
    /\ UNCHANGED <<dvars, bvars>>

NextCodec ==
    \/ \E m \in GraphMessages : CodecBuild("message", m)
    \/ \E r \in GraphRequests : CodecBuild("request", r)
    \/ CodecSerialize
    \/ CodecParse

Init == DispatchInit /\ BridgeInit /\ codec = NoCodec

\* the steps of one handle invocation
HandleStep(t) ==
    \/ EnsureConnectedLock(t)
    \/ \E ok \in BOOLEAN : EnsureConnected(t, ok)
    \/ QueryBegin(t)
    \/ \E ok \in BOOLEAN : Subscribe(t, ok)
    \/ \E ok \in BOOLEAN : Publish(t, ok)
    \/ WaitCheck(t)
    \/ Receive(t)
    \/ ReceiveNone(t)
    \/ PollTimeout(t)
    \/ \E ok \in BOOLEAN : RelaySend(t, ok)
    \/ RelayExit(t)
    \/ HandleReturn(t)

\* traffic on the shared response topic: both formats, for the id in use and for a
\* foreign one, and payloads that are neither
WirePayloads ==
    NewPayloads({1})
    \cup LegacyPayloads({1})
    \cup { NewPayload(ForeignId, "progress", "step1"),
           NewPayload(ForeignId, "final_response", "done"),
           LegacyPayload(ForeignId, "error", "done") }
    \cup JunkPayloads({1})

\* one handle invocation on one responder, any traffic
Next ==
    \/ \E b \in Bodies : HandleBegin(1, 1, b)
    \/ HandleStep(1)
    \/ \E p \in WirePayloads : Emit(p, MaxEmits)
    \/ Tick(TimeoutSecs)

Spec == Init /\ [][Next]_vars

\* the answers of the service to the one request: a progress message and the final one
ClockPayloads ==
    { NewPayload(1, "progress", "step1"), NewPayload(1, "final_response", "done") }

\* one handle invocation with time passing in every step of the query
NextClock ==
    \/ \E b \in Bodies : HandleBegin(1, 1, b)
    \/ HandleStep(1)
    \/ \E p \in ClockPayloads : Emit(p, MaxEmits)
    \/ Tick(TimeoutSecs)
    \/ SetupTick(TimeoutSecs)

SpecClock == Init /\ [][NextClock]_vars

\* one handle invocation with time in poll intervals, the service's answers arriving at
\* any time
NextPoll ==
    \/ \E b \in Bodies : HandleBegin(1, 1, b)
    \/ HandleStep(1)
    \/ \E p \in ClockPayloads : Emit(p, MaxEmits)
    \/ PollTick

SpecPoll == Init /\ [][NextPoll]_vars

\* answers of the service to the requests of the invocations
ServicePayloads ==
    {NewPayload(rid, "progress", "step1") : rid \in Tasks}
    \cup {NewPayload(rid, "final_response", "done") : rid \in Tasks}

\* two invocations on the same responder, sharing its Mutex and its client
NextShared ==
    \/ \E t \in Tasks : HandleBegin(t, 1, "hello")
    \/ \E t \in Tasks : HandleStep(t)
    \/ \E p \in ServicePayloads : Emit(p, MaxEmits)
    \/ Tick(TimeoutSecs + 1)

SpecShared == Init /\ [][NextShared]_vars

\* two invocations on two responders, each with its own client: their queries overlap
NextConcurrent ==
    \/ \E t \in Tasks : HandleBegin(t, t, "hello")
    \/ \E t \in Tasks : HandleStep(t)
    \/ \E p \in ServicePayloads : Emit(p, MaxEmitsConcurrent)
    \/ Tick(TimeoutSecs + 1)

SpecConcurrent == Init /\ [][NextConcurrent]_vars

\* two invocations on one responder, for the progress of every invocation
NextLive ==
    \/ \E t \in Tasks : HandleBegin(t, 1, "hello")
    \/ \E t \in Tasks : HandleStep(t)
    \/ \E p \in ServicePayloads : Emit(p, MaxEmitsConcurrent)
    \/ Tick(TimeoutSecs + 1)

\* the tokio runtime polls every task that can make a step, every await on the bus and on
\* the conversation completes with some result, and time advances; what the peers do
\* (publishing a response, closing the stream) is under no obligation
Fairness ==
    /\ \A t \in Tasks :
          /\ WF_vars(EnsureConnectedLock(t))
          /\ WF_vars(\E ok \in BOOLEAN : EnsureConnected(t, ok))
          /\ WF_vars(QueryBegin(t))
          /\ WF_vars(\E ok \in BOOLEAN : Subscribe(t, ok))
          /\ WF_vars(\E ok \in BOOLEAN : Publish(t, ok))
          /\ WF_vars(WaitCheck(t))
          /\ WF_vars(Receive(t))
          /\ WF_vars(PollTimeout(t))
          /\ WF_vars(\E ok \in BOOLEAN : RelaySend(t, ok))
          /\ WF_vars(RelayExit(t))
          /\ WF_vars(HandleReturn(t))
    /\ WF_vars(Tick(TimeoutSecs + 1))

SpecLive == Init /\ [][NextLive]_vars /\ Fairness

\* the responder manager alone
SpecDispatch == Init /\ [][DispatchNext]_vars

(***************************************************************************)
(* The bot: the manager with the liveness responder and the agent          *)
(* responder, each registered once in either order; the agent responder's  *)
(* handle is the invocation AgentTask of the bridge. A run covers the      *)
(* dispatches up to the first one that reaches the agent responder.        *)
(***************************************************************************)
\* the two responders of the bot, and two responders ranked between them: one whose
\* handle returns NotHandled and one whose handle fails
BotResponders ==
    { PingPongResponder, VerjiAgentResponder,
      [priority |-> 50, behaviour |-> "not_handled"], [priority |-> 50, behaviour |-> "fail"] }

BotBodies == { <<"p", "i", "n", "g">>, <<" ", "P", "i", "n", "g", "\n">>, <<"h", "i">> }

Registered(obj) == \E i \in 1..Len(responders) : responders[i].obj = obj

\* process_message calls handle of the agent responder
AgentHandleBegin ==
    /\ dpc = "handle"
    /\ responders[cursor].obj = VerjiAgentResponder
    /\ HandleBegin(AgentTask, 1, dmsg)

NextBot ==
    \/ \E obj \in BotResponders : ~Registered(obj) /\ Register(obj)
    \/ \E b \in BotBodies : hpc[AgentTask] = "idle" /\ ProcessMessageBegin(b)
    \/ CheckResponder
    \/ HandleResponder
    \/ ProcessMessageEnd
    \/ AgentHandleBegin
    \/ HandleStep(AgentTask)
    \/ \E p \in ServicePayloads : Emit(p, MaxEmits)
    \/ Tick(TimeoutSecs)

SpecBot == Init /\ [][NextBot]_vars

\* the wire structures alone
SpecCodec == Init /\ [][NextCodec]_vars

(***************************************************************************)
(* The liveness responder on message bodies with padding and mixed case.   *)
(***************************************************************************)
MaxPad == 1

PadChars == {" ", "\n", "x"}

\* the texts of at most n padding characters
Pads(n) == UNION {[1..k -> PadChars] : k \in 0..n}

Cores ==
    { <<"p", "i", "n", "g">>, <<"!", "p", "i", "n", "g">>, <<"P", "i", "n", "g">>,
      <<"P", "I", "N", "G">>, <<"!", "P", "i", "N", "g">>, <<"p", "o", "n", "g">>,
      <<"p", "i", " ", "n", "g">>, <<"p", "i", "n", "g", "!">>, <<>> }

PingBodies == {pre \o core \o post : pre \in Pads(MaxPad), core \in Cores, post \in Pads(MaxPad)}

\* the liveness responder and a catch-all responder below it
PingPool == {PingPongResponder, [priority |-> 0, behaviour |-> "handled"]}

\* a run dispatches one message, on any list of these responders
NextPing ==
    \/ \E obj \in PingPool : Register(obj)
    \/ \E b \in PingBodies : dresult = NoResult /\ ProcessMessageBegin(b)
    \/ CheckResponder
    \/ HandleResponder
    \/ ProcessMessageEnd

SpecPing == Init /\ [][NextPing]_vars

(***************************************************************************)
(* Vocabulary of the properties below.                                     *)
(***************************************************************************)
\* the registered responders whose should_handle accepts the message being dispatched
Accepting == {i \in 1..Len(responders) : ShouldHandle(responders[i].obj, dmsg)}

\* i ranks before j: higher priority, or equal priority and registered earlier
RanksBefore(i, j) ==
    \/ responders[i].obj.priority > responders[j].obj.priority
    \/ /\ responders[i].obj.priority = responders[j].obj.priority
       /\ responders[i].reg < responders[j].reg

HandleCalls == SelectSeq(calls, LAMBDA c : c.call = "handle")

Range(s) == {s[i] : i \in 1..Len(s)}

\* p is a JSON object carrying request_id rid / some other request_id
HasId(p, rid) == IsJsonObject(p) /\ "request_id" \in DOMAIN p /\ p.request_id = rid

HasOtherId(p, rid) == IsJsonObject(p) /\ "request_id" \in DOMAIN p /\ p.request_id # rid

IsOwnProgress(p, rid) ==
    /\ HasId(p, rid)
    /\ {"message_type", "content"} \subseteq DOMAIN p
    /\ p.message_type = "progress"

\* the contents of the Progress messages for rid in s, in order
RECURSIVE OwnProgressContents(_, _)
OwnProgressContents(s, rid) ==
    IF s = <<>> THEN <<>>
    ELSE (IF IsOwnProgress(Head(s), rid) THEN <<Head(s).content>> ELSE <<>>)
         \o OwnProgressContents(Tail(s), rid)

\* p has the legacy shape, not the new one, and status "error"
IsLegacyError(p) ==
    /\ IsJsonObject(p)
    /\ {"request_id", "response", "status"} \subseteq DOMAIN p
    /\ ~({"message_type", "content"} \subseteq DOMAIN p)
    /\ p.status = "error"

\* the query of t was published and its wait loop ended in a failure
WaitLoopFailed(t) ==
    /\ request_id[t] \in PublishedIds
    /\ sub[t] = "dropped"
    /\ qres[t].kind = "Err"

\* handle has returned without a successful query: connect failure or query failure
BridgeFailed(t) == hpc[t] = "returned" /\ qres[t].kind # "Ok"

DegradedPrefixes ==
    { "[Offline Mode - Redis unavailable]\nYou said: ",
      "[Error communicating with AI service]\nYou said: " }

\* the progress sends of invocation t, in order
ProgressSends(t) == SelectSeq(conv[t], LAMBDA e : e.kind = "progress")

\* the registered responder with registration number reg
ObjOfReg(reg) == (CHOOSE e \in Range(responders) : e.reg = reg).obj

\* the k-th trait call of the current dispatch is a handle that fails
IsFailedHandle(k) ==
    /\ calls[k].call = "handle"
    /\ HandleOutcome(ObjOfReg(calls[k].reg), dmsg).kind = "Err"

\* a dispatch is under way or has ended, and no register call came after it
Dispatching == dpc \in {"check", "handle", "done"}

\* what a dispatch of body over the list s comes to, by the list and the body alone
RECURSIVE DispatchResult(_, _)
DispatchResult(s, body) ==
    IF s = <<>> THEN [kind |-> "Ok", reply |-> <<>>]
    ELSE IF ~ShouldHandle(Head(s).obj, body) THEN DispatchResult(Tail(s), body)
    ELSE LET out == HandleOutcome(Head(s).obj, body) IN
        CASE out.kind = "Err"        -> [kind |-> "Err", reply |-> <<>>]
          [] out.kind = "Handled"    -> [kind |-> "Ok", reply |-> out.reply]
          [] out.kind = "NotHandled" -> DispatchResult(Tail(s), body)

\* the trait calls of that dispatch
RECURSIVE DispatchCalls(_, _)
DispatchCalls(s, body) ==
    IF s = <<>> THEN <<>>
    ELSE LET check == [call |-> "should_handle", reg |-> Head(s).reg]
             handle == [call |-> "handle", reg |-> Head(s).reg]
         IN IF ~ShouldHandle(Head(s).obj, body)
            THEN <<check>> \o DispatchCalls(Tail(s), body)
            ELSE IF HandleOutcome(Head(s).obj, body).kind = "NotHandled"
            THEN <<check, handle>> \o DispatchCalls(Tail(s), body)
            ELSE <<check, handle>>

\* responder i declines the message, or accepts it and returns NotHandled
PassesOn(i) ==
    \/ ~ShouldHandle(responders[i].obj, dmsg)
    \/ HandleOutcome(responders[i].obj, dmsg).kind = "NotHandled"

\* the position in the list of the responder with registration number reg
IndexOfReg(reg) == CHOOSE i \in 1..Len(responders) : responders[i].reg = reg

\* nothing of the bridge has run: no handle invocation, no connection attempt, no
\* subscription, no request published
BusUntouched ==
    /\ \A t \in Tasks : hpc[t] = "idle" /\ sub[t] = "none" /\ request_id[t] = 0
    /\ \A r \in Instances : connects[r] = 0 /\ redis_client[r] = <<>>
    /\ published = <<>>

\* the spellings of a character of "!ping", upper and lower case
Spellings == ("p" :> {"p", "P"}) @@ ("i" :> {"i", "I"}) @@ ("n" :> {"n", "N"})
             @@ ("g" :> {"g", "G"}) @@ ("!" :> {"!"})

\* s spells word, case aside
SpellsWord(s, word) ==
    /\ Len(s) = Len(word)
    /\ \A k \in 1..Len(word) : s[k] \in Spellings[word[k]]

\* body is "ping" or "!ping" in any case, with whitespace and nothing else around it
IsPingText(body) ==
    \E i, j \in 0..Len(body) :
        /\ i <= j
        /\ \A k \in 1..i : body[k] \in Whitespace
        /\ \A k \in (j + 1)..Len(body) : body[k] \in Whitespace
        /\ \/ SpellsWord(SubSeq(body, i + 1, j), <<"p", "i", "n", "g">>)
           \/ SpellsWord(SubSeq(body, i + 1, j), <<"!", "p", "i", "n", "g">>)

\* this step is the trait call named call, made on the liveness responder
IsPingPongCall(call) ==
    /\ Len(calls') = Len(calls) + 1
    /\ calls'[Len(calls')].call = call
    /\ ObjOfReg(calls'[Len(calls')].reg) = PingPongResponder

\* p is a terminal message for rid: a FinalResponse, HitlRequest or Error in the new
\* shape, or a response in the legacy shape
IsOwnTerminal(p, rid) ==
    /\ HasId(p, rid)
    /\ \/ /\ {"message_type", "content"} \subseteq DOMAIN p
          /\ p.message_type \in {"final_response", "hitl_request", "error"}
       \/ /\ ~({"message_type", "content"} \subseteq DOMAIN p)
          /\ {"response", "status"} \subseteq DOMAIN p

\* ensure_connected of invocation t has returned Ok
PastConnect(t) ==
    \/ hpc[t] \in {"h_lock", "join", "panicked"}
    \/ Querying(t)
    \/ qres[t] # NoQueryResult

\* the requests on the request topic that carry the request_id of invocation t
PublishedBy(t) == {i \in 1..Len(published) : published[i].request_id = request_id[t]}

\* a progress send of invocation t has failed
SendFailed(t) == \E i \in 1..Len(conv[t]) : conv[t][i].kind = "progress" /\ ~conv[t][i].ok

\* p parses as neither GraphMessage nor GraphResponse (this includes bytes that are no text)
Undecodable(p) == ParseGraphMessage(p) = <<>> /\ ParseGraphResponse(p) = <<>>

(***************************************************************************)
(* C1: process_message invokes handle first on the highest-priority        *)
(* registered responder whose should_handle returns true, and among        *)
(* accepting responders of equal priority on the one registered earliest.  *)
(***************************************************************************)
C1_FirstHandleIsBest ==
    (dpc \in {"check", "handle", "done"} /\ HandleCalls # <<>>) =>
        \E i \in Accepting :
            /\ responders[i].reg = HandleCalls[1].reg
            /\ \A j \in Accepting \ {i} : RanksBefore(i, j)

C1_Witness ==
    /\ dpc = "done"
    /\ HandleCalls # <<>>
    /\ \E i, j \in Accepting :
          /\ i # j
          /\ responders[i].obj.priority = responders[j].obj.priority
          /\ responders[i].reg = HandleCalls[1].reg
    /\ \E k \in 1..Len(responders) :
          /\ ~ShouldHandle(responders[k].obj, dmsg)
          /\ \A i \in Accepting : responders[k].obj.priority > responders[i].obj.priority

(***************************************************************************)
(* C2: in every execution of query_with_streaming the request is published *)
(* only after the subscription to the response topic is active, so a       *)
(* response published right after the request is never missed.             *)
(***************************************************************************)
C2_SubscribedBeforePublish ==
    /\ \A t \in Tasks : request_id[t] \in PublishedIds => sub[t] # "none"
    /\ missed = {}

\* the response is already in the subscription when the wait loop starts
C2_Witness ==
    /\ hpc[1] = "w_check"
    /\ consumed[1] = <<>>
    /\ elapsed[1] = 0
    /\ inbox[1] # <<>>
    /\ HasId(inbox[1][1], request_id[1])

(***************************************************************************)
(* C3: a message with a request_id other than the query's own, in either   *)
(* format, progress or terminal, is discarded: on_progress is not invoked, *)
(* the query does not resolve and goes on waiting; a query only ever       *)
(* resolves on a message with its own request_id.                          *)
(***************************************************************************)
C3_ForeignDiscarded ==
    [][\A t \in Tasks :
          /\ (/\ Len(consumed'[t]) > Len(consumed[t])
              /\ HasOtherId(consumed'[t][Len(consumed'[t])], request_id[t]))
             => /\ hpc'[t] = "w_check"
                /\ cbLog'[t] = cbLog[t]
                /\ chan'[t] = chan[t]
                /\ qres'[t] = qres[t]
                /\ final'[t] = <<>>
          /\ final'[t] # <<>> => final'[t][1].request_id = request_id'[t]]_vars

C3_Witness ==
    /\ Len(consumed[1]) = 3
    /\ consumed[1][1] = NewPayload(ForeignId, "final_response", "done")
    /\ consumed[1][2] = LegacyPayload(ForeignId, "error", "done")
    /\ HasId(consumed[1][3], request_id[1])
    /\ final[1] # <<>>
    /\ cbLog[1] = <<>>

(***************************************************************************)
(* C4: on_progress is invoked exactly once per matching Progress message,  *)
(* in arrival order, all of it before the query resolves, and the text the *)
(* query returns comes from the terminal message alone.                    *)
(***************************************************************************)
C4_ProgressThenFinal ==
    \A t \in Tasks :
        /\ cbLog[t] = OwnProgressContents(consumed[t], request_id[t])
        /\ qres[t].kind = "Ok" =>
              LET last == consumed[t][Len(consumed[t])] IN
                 /\ ~IsOwnProgress(last, request_id[t])
                 /\ "content" \in DOMAIN last =>
                       /\ qres[t].text[Len(qres[t].text)] = last.content
                       /\ Range(qres[t].text) \cap Range(cbLog[t]) = {}

C4_Witness ==
    /\ hpc[1] = "returned"
    /\ consumed[1] = << NewPayload(1, "progress", "step2"),
                        NewPayload(1, "progress", "step1"),
                        NewPayload(1, "final_response", "done") >>
    /\ cbLog[1] = <<"step2", "step1">>
    /\ qres[1] = [kind |-> "Ok", text |-> <<"done">>]

(***************************************************************************)
(* C5: a query whose wait loop ends without a matching terminal message,   *)
(* its subscription still open, ends with the timeout condition, whatever  *)
(* non-matching, progress or unparseable traffic it received.              *)
(***************************************************************************)
C5_FailsWithTimeout ==
    \A t \in Tasks :
        (WaitLoopFailed(t) /\ ~ended[t]) =>
            qres[t].text = <<"Timeout waiting for response from vagent-graph">>

(***************************************************************************)
(* C6: a legacy response with the query's request_id and status "error"    *)
(* resolves the query as an Error message with the same request_id, whose  *)
(* content is the legacy error field, or the response field when the error *)
(* field is absent.                                                        *)
(***************************************************************************)
C6_LegacyErrorContent ==
    \A t \in Tasks :
        (final[t] # <<>> /\ IsLegacyError(consumed[t][Len(consumed[t])])) =>
            LET p == consumed[t][Len(consumed[t])] IN
               /\ final[t][1].message_type = "error"
               /\ final[t][1].request_id = p.request_id
               /\ final[t][1].content = IF "error" \in DOMAIN p THEN p.error ELSE p.response

(***************************************************************************)
(* C7: handle never returns Err or NotHandled; when the bridge failed      *)
(* (connect, subscribe, publish, stream end, timeout) it returns Handled   *)
(* with the degraded-mode prefix followed by the original body, and no     *)
(* error text.                                                             *)
(***************************************************************************)
C7_FallbackReply ==
    \A t \in Tasks :
        /\ hpc[t] # "panicked"
        /\ hres[t].kind \in {"None", "Handled"}
        /\ hpc[t] = "returned" => hres[t].kind = "Handled"
        /\ BridgeFailed(t) =>
              /\ Len(hres[t].reply) = 2
              /\ hres[t].reply[1] \in DegradedPrefixes
              /\ hres[t].reply[2] = message_body[t]
              /\ Range(hres[t].reply) \cap ErrorTexts = {}

C7_Witness ==
    /\ hpc[1] = "returned"
    /\ qres[1] = Failure("Timeout waiting for response from vagent-graph")
    /\ cbLog[1] # <<>>
    /\ hres[1] = [kind |-> "Handled", reply |-> ErrorReply("ping")]

(***************************************************************************)
(* C8: every progress message is sent to the conversation before handle    *)
(* returns the reply, in the order the Progress messages arrived; nothing  *)
(* is sent after the reply.                                                *)
(***************************************************************************)
C8_ProgressBeforeReply ==
    \A t \in Tasks :
        /\ \A i \in 1..Len(conv[t]) : conv[t][i].kind = "reply" => i = Len(conv[t])
        /\ hpc[t] = "returned" =>
              /\ Len(ProgressSends(t)) = Len(cbLog[t])
              /\ \A i \in 1..Len(cbLog[t]) : ProgressSends(t)[i].text = <<cbLog[t][i]>>
              /\ conv[t][Len(conv[t])].kind = "reply"
              /\ chan[t] = <<>>

C8_Witness ==
    /\ hpc[1] = "returned"
    /\ Len(conv[1]) = 3
    /\ conv[1][1] = [kind |-> "progress", text |-> <<"step1">>, ok |-> TRUE]
    /\ conv[1][2] = [kind |-> "progress", text |-> <<"step2">>, ok |-> TRUE]
    /\ conv[1][3] = [kind |-> "reply", text |-> <<"done">>, ok |-> TRUE]

(***************************************************************************)
(* C9: with two queries outstanding at once, each resolves with the        *)
(* content of the terminal message carrying its own request_id and relays  *)
(* only its own progress messages, in whatever order the responses arrive. *)
(***************************************************************************)
C9_OwnResponseOnly ==
    \A t \in Tasks :
        /\ final[t] # <<>> =>
              /\ final[t][1].request_id = request_id[t]
              /\ HasId(consumed[t][Len(consumed[t])], request_id[t])
              /\ qres[t] = [kind |-> "Ok", text |-> <<consumed[t][Len(consumed[t])].content>>]
        /\ Len(chan[t]) + Len(ProgressSends(t))
              = Len(SelectSeq(consumed[t], LAMBDA p : IsOwnProgress(p, request_id[t])))

\* the responses arrive in the reverse of the request order
C9_Witness ==
    \E a, b \in Tasks :
        /\ published = << [request_id |-> request_id[a], query |-> "hello"],
                          [request_id |-> request_id[b], query |-> "hello"] >>
        /\ consumed[a] = << NewPayload(request_id[b], "final_response", "done"),
                            NewPayload(request_id[a], "final_response", "done") >>
        /\ consumed[b] = << NewPayload(request_id[b], "final_response", "done") >>
        /\ final[a] # <<>>
        /\ final[b] # <<>>

(***************************************************************************)
(* C10: the lock serializes only the connect-if-absent step: while one     *)
(* invocation is in its wait loop, another invocation on the same          *)
(* responder that has connected can start its own query.                   *)
(***************************************************************************)
C10_QueriesOverlap ==
    \A a, b \in Tasks :
        (a # b /\ inst[a] = inst[b] /\ InWait(a) /\ hpc[b] = "h_lock") =>
            ENABLED QueryBegin(b)

(***************************************************************************)
(* C11: a received payload that decodes as neither message shape, a        *)
(* payload that is not valid text included, never aborts the pending       *)
(* query: the wait loop discards it and goes on waiting, on_progress is    *)
(* not invoked and the query's result stays open.                          *)
(***************************************************************************)
C11_MalformedDiscarded ==
    [][\A t \in Tasks :
          (/\ Len(consumed'[t]) > Len(consumed[t])
           /\ Undecodable(consumed'[t][Len(consumed'[t])]))
          => /\ hpc'[t] = "w_check"
             /\ sub'[t] = "active"
             /\ qres'[t] = NoQueryResult
             /\ cbLog'[t] = cbLog[t]]_vars

(***************************************************************************)
(* C12: when a responder accepts a message and its handle fails,           *)
(* process_message returns that failure at once: the failed handle is the  *)
(* last trait call of the dispatch, so no lower-ranked responder's         *)
(* should_handle or handle is invoked.                                     *)
(***************************************************************************)
C12_FailureAbortsChain ==
    Dispatching =>
        \A k \in 1..Len(calls) :
            IsFailedHandle(k) =>
                /\ k = Len(calls)
                /\ dpc = "done"
                /\ dresult = [kind |-> "Err", reply |-> <<>>]

\* a responder ranked below the failing one would have accepted the message
C12_Witness ==
    /\ dpc = "done"
    /\ dresult.kind = "Err"
    /\ IsFailedHandle(Len(calls))
    /\ cursor > 1
    /\ \E j \in (cursor + 1)..Len(responders) :
          /\ ShouldHandle(responders[j].obj, dmsg)
          /\ HandleOutcome(responders[j].obj, dmsg).kind = "Handled"

(***************************************************************************)
(* C13: a dispatch, one that ends in a responder failure included, leaves  *)
(* the manager as it was: the responder list and its order do not change   *)
(* during a dispatch, and the outcome and the trait calls of every         *)
(* dispatch, also of one that follows a failed dispatch, are those the     *)
(* list and the message determine.                                         *)
(***************************************************************************)
C13_FailureLeavesNoTrace ==
    [][/\ dpc' \in {"check", "handle", "done"} =>
             /\ responders' = responders
             /\ nextReg' = nextReg
       /\ dpc' = "done" =>
             /\ dresult' = DispatchResult(responders', dmsg')
             /\ calls' = DispatchCalls(responders', dmsg')]_vars

\* a dispatch that yields a reply, after a dispatch on the same list that failed
C13_Witness ==
    /\ failedBefore
    /\ dpc = "done"
    /\ dresult.kind = "Ok"
    /\ dresult.reply # <<>>
    /\ Len(calls) > 2

(***************************************************************************)
(* C14: when every registered responder declines or returns NotHandled,    *)
(* and so for every message on an empty manager, process_message returns   *)
(* Ok(None), not a failure.                                                *)
(***************************************************************************)
C14_NoReplyIsOk ==
    (dpc = "done" /\ \A i \in 1..Len(responders) : PassesOn(i)) =>
        dresult = [kind |-> "Ok", reply |-> <<>>]

\* a decline and a NotHandled, and no reply
C14_Witness ==
    /\ dpc = "done"
    /\ Len(responders) >= 2
    /\ \A i \in 1..Len(responders) : PassesOn(i)
    /\ \E i \in 1..Len(responders) : ~ShouldHandle(responders[i].obj, dmsg)
    /\ \E k \in 1..Len(calls) : calls[k].call = "handle"
    /\ dresult = [kind |-> "Ok", reply |-> <<>>]

(***************************************************************************)
(* C15: when every responder ranked above the last one declines or returns *)
(* NotHandled, the dispatch reaches the last responder of the sorted list  *)
(* and its answer is the result; after a NotHandled the next trait call is *)
(* should_handle of the next responder, as after a decline.                *)
(***************************************************************************)
C15_ChainReachesLast ==
    dpc = "done" =>
        /\ (responders # <<>> /\ \A i \in 1..(Len(responders) - 1) : PassesOn(i)) =>
              /\ \E k \in 1..Len(calls) :
                    calls[k] = [call |-> "should_handle", reg |-> responders[Len(responders)].reg]
              /\ dresult = DispatchResult(<<responders[Len(responders)]>>, dmsg)
        /\ \A k \in 1..Len(calls) :
              LET i == IndexOfReg(calls[k].reg) IN
                 (/\ i < Len(responders)
                  /\ \/ calls[k].call = "handle" /\ PassesOn(i)
                     \/ calls[k].call = "should_handle" /\ ~ShouldHandle(responders[i].obj, dmsg))
                 => /\ k < Len(calls)
                    /\ calls[k + 1] = [call |-> "should_handle", reg |-> responders[i + 1].reg]

\* a decline, then a NotHandled, then the reply of the lowest-priority responder
C15_Witness ==
    /\ dpc = "done"
    /\ Len(responders) = 3
    /\ ~ShouldHandle(responders[1].obj, dmsg)
    /\ ShouldHandle(responders[2].obj, dmsg)
    /\ HandleOutcome(responders[2].obj, dmsg).kind = "NotHandled"
    /\ responders[3].obj.priority < responders[1].obj.priority
    /\ calls[Len(calls)] = [call |-> "handle", reg |-> responders[3].reg]
    /\ dresult.kind = "Ok"
    /\ dresult.reply # <<>>

(***************************************************************************)
(* C16: with the liveness responder and the agent responder registered, a  *)
(* message with body "ping" yields the reply "Pong!" and no bus activity:  *)
(* handle of the agent responder is not invoked, no connection is          *)
(* attempted, nothing is subscribed or published.                          *)
(***************************************************************************)
C16_PingStaysLocal ==
    (/\ Dispatching
     /\ Registered(PingPongResponder)
     /\ Registered(VerjiAgentResponder)
     /\ dmsg = <<"p", "i", "n", "g">>) =>
        /\ \A k \in 1..Len(calls) :
              calls[k].call = "handle" => ObjOfReg(calls[k].reg) = PingPongResponder
        /\ BusUntouched
        /\ dpc = "done" => dresult = [kind |-> "Ok", reply |-> <<"Pong!">>]

\* the liveness responder was registered after the agent responder
C16_Witness ==
    /\ dpc = "done"
    /\ Len(responders) = 2
    /\ responders[1] = [obj |-> PingPongResponder, reg |-> 2]
    /\ responders[2] = [obj |-> VerjiAgentResponder, reg |-> 1]
    /\ dmsg = <<"p", "i", "n", "g">>
    /\ calls = << [call |-> "should_handle", reg |-> 2], [call |-> "handle", reg |-> 2] >>
    /\ dresult = [kind |-> "Ok", reply |-> <<"Pong!">>]

(***************************************************************************)
(* C17: should_handle of the liveness responder is true exactly when the   *)
(* body, with surrounding whitespace removed and in lower case, is "ping"  *)
(* or "!ping"; its handle returns Handled("Pong!") and changes nothing     *)
(* else.                                                                   *)
(***************************************************************************)
C17_PingPongContract ==
    [][/\ IsPingPongCall("should_handle") => (dpc' = "handle" <=> IsPingText(dmsg))
       /\ IsPingPongCall("handle") =>
             /\ dresult' = [kind |-> "Ok", reply |-> <<"Pong!">>]
             /\ dpc' = "done"
             /\ UNCHANGED <<responders, nextReg, dmsg, bvars, cvars>>]_vars

\* "!PiNg" between a space and a line end
C17_Witness ==
    /\ dpc = "done"
    /\ dmsg = <<" ", "!", "P", "i", "N", "g", "\n">>
    /\ calls # <<>>
    /\ ObjOfReg(calls[Len(calls)].reg) = PingPongResponder
    /\ dresult = [kind |-> "Ok", reply |-> <<"Pong!">>]

(***************************************************************************)
(* C18: a matching terminal message of kind Error does not fail the query: *)
(* query_with_streaming returns Ok with "Error: " followed by the          *)
(* message's content, and handle returns that text as its Handled reply,   *)
(* not a degraded-mode fallback.                                           *)
(***************************************************************************)
C18_ErrorIsAReply ==
    \A t \in Tasks :
        (final[t] # <<>> /\ final[t][1].message_type = "error") =>
            /\ qres[t] = [kind |-> "Ok", text |-> <<"Error: ", final[t][1].content>>]
            /\ hpc[t] = "returned" =>
                  /\ hres[t] = [kind |-> "Handled", reply |-> qres[t].text]
                  /\ hres[t].reply[1] \notin DegradedPrefixes
                  /\ conv[t][Len(conv[t])].text = qres[t].text

C18_Witness ==
    /\ hpc[1] = "returned"
    /\ final[1] # <<>>
    /\ consumed[1][Len(consumed[1])] = NewPayload(1, "error", "boom")
    /\ hres[1] = [kind |-> "Handled", reply |-> <<"Error: ", "boom">>]

(***************************************************************************)
(* C19: a GraphRequest or a GraphMessage serialized to JSON and parsed     *)
(* back equals the original field for field, for every message kind, with  *)
(* metadata present and absent.                                            *)
(***************************************************************************)
C19_RoundTrip ==
    codec.stage = "parsed" => codec.parsed = codec.value

(***************************************************************************)
(* C20: the query resolves on the first terminal message with its          *)
(* request_id: no earlier received message was one, and for a              *)
(* FinalResponse or HitlRequest the result is exactly that message's       *)
(* content. Once resolved, nothing that arrives for the same request_id    *)
(* has an effect: the result, the returned message and the on_progress     *)
(* invocations stay as they are.                                           *)
(***************************************************************************)
C20_FirstTerminalWins ==
    [][\A t \in Tasks :
          /\ final'[t] # <<>> =>
                LET n == Len(consumed'[t]) IN
                   /\ IsOwnTerminal(consumed'[t][n], request_id'[t])
                   /\ \A i \in 1..(n - 1) : ~IsOwnTerminal(consumed'[t][i], request_id'[t])
                   /\ final'[t][1].message_type \in {"final_response", "hitl_request"} =>
                         /\ qres'[t] = [kind |-> "Ok", text |-> <<final'[t][1].content>>]
                         /\ "content" \in DOMAIN consumed'[t][n] =>
                               final'[t][1].content = consumed'[t][n].content
          /\ final[t] # <<>> =>
                /\ final'[t] = final[t]
                /\ qres'[t] = qres[t]
                /\ cbLog'[t] = cbLog[t]
                /\ consumed'[t] = consumed[t]
                /\ Len(chan'[t]) <= Len(chan[t])]_vars

\* a second terminal message and a late Progress came after the HitlRequest
C20_Witness ==
    /\ hpc[1] = "returned"
    /\ consumed[1] = << NewPayload(1, "hitl_request", "approve?") >>
    /\ ignored[1] = {"progress", "return"}
    /\ cbLog[1] = <<>>
    /\ hres[1] = [kind |-> "Handled", reply |-> <<"approve?">>]

(***************************************************************************)
(* C21: after any sequence of register calls the responder list holds each *)
(* registered responder exactly once, in order of non-increasing priority, *)
(* responders of equal priority in the order of their registration;        *)
(* list_responders reports the responders in that order and count is the   *)
(* number of register calls.                                               *)
(***************************************************************************)
C21_ListIsStableSortedPermutation ==
    /\ Count = nextReg
    /\ \A n \in 1..nextReg : \E i \in 1..Len(responders) : responders[i].reg = n
    /\ \A i, j \in 1..Len(responders) :
          i < j =>
             /\ responders[i].reg # responders[j].reg
             /\ responders[i].obj.priority >= responders[j].obj.priority
             /\ responders[i].obj.priority = responders[j].obj.priority
                   => responders[i].reg < responders[j].reg
    /\ Len(ListResponders) = Count
    /\ \A i \in 1..Count :
          ListResponders[i] = <<NameOf(responders[i].obj), responders[i].obj.priority>>

\* the second registration ranks first, the first and the third tie and keep their order
C21_Witness ==
    /\ Count = 3
    /\ nextReg = 3
    /\ responders[1].reg = 2
    /\ responders[2].reg = 1
    /\ responders[3].reg = 3
    /\ responders[2].obj.priority = responders[3].obj.priority
    /\ ListResponders[1][2] > ListResponders[2][2]

(***************************************************************************)
(* C22: a handle that returns Handled(reply) ends the dispatch: it is the  *)
(* last trait call of the dispatch, process_message returns Ok(reply),     *)
(* also when the reply is absent, and no responder ranked after it has     *)
(* should_handle or handle invoked.                                        *)
(***************************************************************************)
C22_HandledEndsDispatch ==
    Dispatching =>
        \A k \in 1..Len(calls) :
            (/\ calls[k].call = "handle"
             /\ HandleOutcome(ObjOfReg(calls[k].reg), dmsg).kind = "Handled")
            => /\ k = Len(calls)
               /\ dpc = "done"
               /\ dresult = [kind |-> "Ok", reply |-> HandleOutcome(ObjOfReg(calls[k].reg), dmsg).reply]
               /\ \A j \in 1..Len(responders) :
                     IndexOfReg(calls[k].reg) < j =>
                        \A n \in 1..Len(calls) : calls[n].reg # responders[j].reg

\* Handled with no text, while a responder ranked below would have replied
C22_Witness ==
    /\ dpc = "done"
    /\ calls # <<>>
    /\ calls[Len(calls)].call = "handle"
    /\ HandleOutcome(ObjOfReg(calls[Len(calls)].reg), dmsg) = [kind |-> "Handled", reply |-> <<>>]
    /\ dresult = [kind |-> "Ok", reply |-> <<>>]
    /\ \E j \in (cursor + 1)..Len(responders) :
          /\ ShouldHandle(responders[j].obj, dmsg)
          /\ HandleOutcome(responders[j].obj, dmsg).kind = "Handled"
          /\ HandleOutcome(responders[j].obj, dmsg).reply # <<>>

(***************************************************************************)
(* C23: within one dispatch, handle is invoked on a responder only right   *)
(* after that responder's should_handle has answered true for the same     *)
(* message; a responder whose should_handle answered false has no handle   *)
(* invoked; and no responder has should_handle, or handle, invoked twice.  *)
(***************************************************************************)
C23_TwoPhaseDispatch ==
    Dispatching =>
        /\ \A k \in 1..Len(calls) :
              calls[k].call = "handle" =>
                 /\ k > 1
                 /\ calls[k - 1] = [call |-> "should_handle", reg |-> calls[k].reg]
                 /\ ShouldHandle(ObjOfReg(calls[k].reg), dmsg)
        /\ \A k \in 1..Len(calls) :
              (calls[k].call = "should_handle" /\ ~ShouldHandle(ObjOfReg(calls[k].reg), dmsg))
              => \A n \in 1..Len(calls) : calls[n] # [call |-> "handle", reg |-> calls[k].reg]
        /\ \A k, n \in 1..Len(calls) : calls[k] = calls[n] => k = n

\* one responder declined, one accepted and returned NotHandled, one accepted and replied
C23_Witness ==
    /\ dpc = "done"
    /\ Len(calls) = 5
    /\ calls[1].call = "should_handle"
    /\ calls[2].call = "should_handle"
    /\ calls[3].call = "handle"
    /\ calls[4].call = "should_handle"
    /\ calls[5].call = "handle"
    /\ ~ShouldHandle(responders[1].obj, dmsg)
    /\ dresult.reply # <<>>

(***************************************************************************)
(* C24: a query's subscription is active only while the query runs: once   *)
(* query_with_streaming has returned, by a terminal message, the timeout,  *)
(* a publish failure, the end of the stream or an undecodable payload, the *)
(* subscription it opened is no longer active.                             *)
(***************************************************************************)
C24_SubscriptionEndsWithQuery ==
    \A t \in Tasks :
        /\ sub[t] = "active" => Querying(t)
        /\ qres[t] # NoQueryResult => sub[t] # "active"

\* the query was aborted by a payload it could not decode, with messages still unread
C24_Witness ==
    /\ hpc[1] = "returned"
    /\ qres[1] = Failure("payload is not valid UTF-8")
    /\ sub[1] = "dropped"
    /\ Len(consumed[1]) = 2
    /\ nEmitted = 3

(***************************************************************************)
(* C25: the 30-second deadline of a query runs from the construction of    *)
(* the request: the wait loop goes on to another receive only while no     *)
(* more than 30 seconds have passed since the request was built, the time  *)
(* spent subscribing and publishing included.                              *)
(***************************************************************************)
C25_DeadlineFromRequestConstruction ==
    [][\A t \in Tasks :
          (hpc[t] = "w_check" /\ hpc'[t] = "w_recv") => age[t] <= TimeoutSecs]_vars

(***************************************************************************)
(* C26: the progress sink never blocks the wait loop: whatever the relay   *)
(* task has still to send to the conversation, the loop can receive the    *)
(* next delivered message and act on it, the terminal one included.        *)
(***************************************************************************)
C26_SinkNeverBlocksLoop ==
    \A t \in Tasks :
        (hpc[t] = "w_recv" /\ inbox[t] # <<>>) => ENABLED Receive(t)

\* the query has returned the final response while two progress contents are still in
\* the channel and nothing has been sent to the conversation
C26_Witness ==
    /\ hpc[1] = "join"
    /\ final[1] # <<>>
    /\ final[1][1].message_type = "final_response"
    /\ rpc[1] = "running"
    /\ Len(chan[1]) = 2
    /\ conv[1] = <<>>

(***************************************************************************)
(* C27: with the agent responder last in the list, a dispatch never ends   *)
(* in the "no responder handled the message" outcome: it ends with a       *)
(* handle call that returned Handled, or with a failure of a responder     *)
(* ranked before the agent responder. With only the liveness responder and *)
(* the agent responder registered, every dispatch ends with a reply that   *)
(* is present, and none with a failure.                                    *)
(***************************************************************************)
C27_AgentIsTerminalFallback ==
    (/\ dpc = "done"
     /\ responders # <<>>
     /\ responders[Len(responders)].obj = VerjiAgentResponder) =>
        /\ calls # <<>>
        /\ calls[Len(calls)].call = "handle"
        /\ LET last == ObjOfReg(calls[Len(calls)].reg) IN
              \/ /\ HandleOutcome(last, dmsg).kind = "Handled"
                 /\ dresult = [kind |-> "Ok", reply |-> HandleOutcome(last, dmsg).reply]
              \/ /\ HandleOutcome(last, dmsg).kind = "Err"
                 /\ last # VerjiAgentResponder
                 /\ dresult.kind = "Err"
        /\ (\A i \in 1..Len(responders) :
                responders[i].obj \in {PingPongResponder, VerjiAgentResponder})
              => dresult.kind = "Ok" /\ dresult.reply # <<>>

\* a responder ranked above declined by NotHandled and the agent responder, last in the
\* list, gave the reply it got from the service
C27_Witness ==
    /\ dpc = "done"
    /\ Len(responders) = 3
    /\ responders[1].obj = PingPongResponder
    /\ responders[2].obj = [priority |-> 50, behaviour |-> "not_handled"]
    /\ responders[3].obj = VerjiAgentResponder
    /\ Len(calls) = 5
    /\ dresult.kind = "Ok"
    /\ final[AgentTask] # <<>>
    /\ dresult.reply = FinalText(final[AgentTask][1])

(***************************************************************************)
(* C28: ensure_connected creates at most one client per responder: once a  *)
(* client is stored, no invocation on that responder, sequential or        *)
(* concurrent, makes a connection attempt, and the stored client is never  *)
(* replaced.                                                               *)
(***************************************************************************)
C28_ConnectOnce ==
    [][\A r \in Instances :
          redis_client[r] # <<>> =>
             /\ redis_client'[r] = redis_client[r]
             /\ connects'[r] = connects[r]]_vars

\* two invocations on one responder have both started a query, on the client of the
\* one connection attempt made
C28_Witness ==
    /\ inst[1] = 1
    /\ inst[2] = 1
    /\ request_id[1] # 0
    /\ request_id[2] # 0
    /\ connects[1] = 1
    /\ redis_client[1] = <<1>>

(***************************************************************************)
(* C30: the connection state of a responder never goes back from Connected *)
(* to Unconnected: in every interleaving, an invocation for which          *)
(* ensure_connected has returned Ok finds the client present when it takes *)
(* the lock again, and the expectation "Redis client should be             *)
(* initialized" never fails.                                               *)
(***************************************************************************)
C30_ClientStaysPresent ==
    \A t \in Tasks :
        /\ hpc[t] # "panicked"
        /\ PastConnect(t) => redis_client[inst[t]] # <<>>

\* the first invocation has returned and the second runs its query, both on the client
\* of the one connection attempt made
C30_Witness ==
    /\ inst[1] = 1
    /\ inst[2] = 1
    /\ hpc[1] = "returned"
    /\ qres[1] # NoQueryResult
    /\ lock[1] = 2
    /\ InWait(2)
    /\ connects[1] = 1

(***************************************************************************)
(* C29: responder names are unique within a manager: after any sequence of *)
(* register calls no two held responders, and no two entries of            *)
(* list_responders, have the same name.                                    *)
(***************************************************************************)
C29_NamesUnique ==
    \A i, j \in 1..Count :
        i # j =>
           /\ NameOf(responders[i].obj) # NameOf(responders[j].obj)
           /\ ListResponders[i][1] # ListResponders[j][1]

(***************************************************************************)
(* C31: a failed connection attempt leaves the responder without a client  *)
(* and publishes nothing, and the failure is not remembered: an invocation *)
(* that takes the lock while no client is stored goes on to a connection   *)
(* attempt, however many attempts have failed before, and that attempt can *)
(* succeed and lead to a query.                                            *)
(***************************************************************************)
C31_FailureNotLatched ==
    [][\A t \in Tasks :
          /\ (hpc[t] = "ec_connect" /\ hpc'[t] = "returned") =>
                 /\ redis_client'[inst[t]] = <<>>
                 /\ published' = published
                 /\ request_id'[t] = 0
                 /\ sub'[t] = "none"
          /\ (hpc[t] = "ec_lock" /\ redis_client[inst[t]] = <<>> /\ MutexFree(inst[t])) =>
                 /\ ENABLED EnsureConnectedLock(t)
                 /\ hpc'[t] \in {"ec_lock", "ec_connect"}
                 /\ (lock'[inst[t]] = t) => hpc'[t] = "ec_connect"
          /\ hpc[t] = "ec_connect" =>
                 /\ lock[inst[t]] = t
                 /\ ENABLED EnsureConnected(t, TRUE)]_vars

\* the first invocation got the offline reply, the second connected at the second
\* attempt and its query returned the service's final response
C31_Witness ==
    /\ inst[1] = 1
    /\ inst[2] = 1
    /\ hpc[1] = "returned"
    /\ hres[1].reply = OfflineReply(message_body[1])
    /\ request_id[1] = 0
    /\ connects[1] = 2
    /\ redis_client[1] = <<2>>
    /\ final[2] # <<>>
    /\ qres[2].kind = "Ok"
    /\ Len(published) = 1

(***************************************************************************)
(* C32: a query publishes its request at most once and only with its       *)
(* subscription open: a query that failed to subscribe has nothing on the  *)
(* request topic, a query in or past its wait loop has exactly one         *)
(* request there, however often the loop has polled.                       *)
(***************************************************************************)
C32_PublishedOnceAfterSubscribe ==
    /\ \A i \in 1..Len(published) :
          \E t \in Tasks : request_id[t] # 0 /\ i \in PublishedBy(t)
    /\ \A t \in Tasks :
          /\ Cardinality(PublishedBy(t)) <= 1
          /\ PublishedBy(t) # {} => sub[t] # "none"
          /\ qres[t] = Failure("subscribe failed") => PublishedBy(t) = {}
          /\ hpc[t] \in {"q_subscribe", "q_publish"} => PublishedBy(t) = {}
          /\ (InWait(t) \/ final[t] # <<>>) => Cardinality(PublishedBy(t)) = 1

\* the first query failed to subscribe, the second one polled until the deadline passed
C32_Witness ==
    /\ qres[1] = Failure("subscribe failed")
    /\ request_id[1] # 0
    /\ PublishedBy(1) = {}
    /\ qres[2] = Failure("Timeout waiting for response from vagent-graph")
    /\ Cardinality(PublishedBy(2)) = 1
    /\ Len(published) = 1

(***************************************************************************)
(* C33: the wait loop resolves within the deadline plus one poll interval: *)
(* with each receive waiting at most one poll interval and the deadline    *)
(* checked before every receive, a query is never still waiting more than  *)
(* 30 + 1 seconds after the loop started, whenever messages arrive.        *)
(***************************************************************************)
C33_WaitIsBounded ==
    \A t \in Tasks :
        /\ elapsed[t] <= TimeoutSecs + PollSecs
        /\ hpc[t] = "w_recv" => elapsed[t] - waited[t] <= TimeoutSecs

\* the loop received a progress message on its way and resolved with the timeout one
\* poll interval after the deadline
C33_Witness ==
    /\ qres[1] = Failure("Timeout waiting for response from vagent-graph")
    /\ elapsed[1] = TimeoutSecs + PollSecs
    /\ cbLog[1] # <<>>
    /\ Len(consumed[1]) = 2

(***************************************************************************)
(* C34: a progress send that fails aborts neither the relay task nor the   *)
(* query: the relay task goes on to attempt every later progress content,  *)
(* in order and none left out, and handle returns the reply built from the *)
(* query's result, the final text or the error reply.                      *)
(***************************************************************************)
C34_FailedSendIsSkipped ==
    \A t \in Tasks :
        SendFailed(t) =>
           /\ Len(ProgressSends(t)) + Len(chan[t]) = Len(cbLog[t])
           /\ \A i \in 1..Len(ProgressSends(t)) : ProgressSends(t)[i].text = <<cbLog[t][i]>>
           /\ chan[t] # <<>> => rpc[t] = "running" /\ ENABLED RelaySend(t, TRUE)
           /\ Querying(t) \/ hpc[t] \in {"join", "returned"}
           /\ hpc[t] = "w_recv" /\ inbox[t] # <<>> => ENABLED Receive(t)
           /\ hpc[t] = "returned" =>
                 /\ chan[t] = <<>>
                 /\ hres[t] = [kind |-> "Handled", reply |-> ReplyOf(t)]
                 /\ conv[t][Len(conv[t])] = [kind |-> "reply", text |-> ReplyOf(t), ok |-> TRUE]

\* the first send failed, the second was made all the same, and the reply is the final text
C34_Witness ==
    /\ hpc[1] = "returned"
    /\ Len(conv[1]) = 3
    /\ conv[1][1] = [kind |-> "progress", text |-> <<"step1">>, ok |-> FALSE]
    /\ conv[1][2] = [kind |-> "progress", text |-> <<"step2">>, ok |-> TRUE]
    /\ conv[1][3] = [kind |-> "reply", text |-> <<"done">>, ok |-> TRUE]
    /\ qres[1].kind = "Ok"

====
